---- MODULE Spec2Model ----
(***************************************************************************)
(* Model of the APEC crawler (src/extraction/crawl_all_apec_ads.py): the   *)
(* paginated crawl loop, the retrying page fetch, the keyed upsert into    *)
(* the ads table and the run row that tracks one execution.                *)
(***************************************************************************)
EXTENDS Integers, Sequences, FiniteSets, TLC

(* ------------------------------------------------------------------ *)
(* Program constants                                                   *)
(* ------------------------------------------------------------------ *)

\* PAGE_SIZE (100 in the source), scaled down to keep pages enumerable.
PAGE_SIZE == 2

\* MAX_RETRIES, the value of the source.
MAX_RETRIES == 5

\* base_delay and max_delay of exponential_backoff_sleep (1.0 s and 60.0 s),
\* in milliseconds.
BASE_DELAY == 1000

MAX_DELAY == 60000

\* sys.float_info.max_exp: an int of 2^1024 or more has no float.
FLOAT_MAX_EXP == 1024

\* The status of a process that ends by SIGINT, as a shell reports it
\* (128 + 2): what the interpreter does with a KeyboardInterrupt nobody
\* catches.
SIGINT_STATUS == 130

(* ------------------------------------------------------------------ *)
(* Bounds of the model                                                 *)
(* ------------------------------------------------------------------ *)

\* Largest totalCount a response may carry.
MaxTotal == 3

\* Number of executions of main() on the same store file.
MaxRuns == 1

\* Last reading of the wall clock (the clock stays there once reached).
MaxClock == 2

\* Largest attempt number exponential_backoff_sleep is called with when it
\* is examined on its own.
MaxAttempt == 1025

\* The most rows a metric table gets.
MaxRows == 2

(* ------------------------------------------------------------------ *)
(* Values                                                              *)
(* ------------------------------------------------------------------ *)

\* SQL NULL / Python None for a timestamp column.
NULL == 0

\* MAX_PAGES = None.
NoPageCap == 0

\* Values MAX_PAGES is given in the module header of the crawler.
MaxPagesChoices == {NoPageCap, 1}

\* A JSON value found under the key "id" of an offer: absent, an integer,
\* or a string (a sequence of characters).
IdNone == [kind |-> "none", n |-> 0, s |-> <<>>]

IdInt(v) == [kind |-> "int", n |-> v, s |-> <<>>]

IdStr(chars) == [kind |-> "str", n |-> 0, s |-> chars]

RawIds == {IdNone, IdInt(0), IdInt(1), IdInt(2), IdStr(<<"1">>), IdStr(<<"a", "b", "c">>)}

\* An offer of the API: its "id" and one more field, "intitule".
Offers ==
    {[id |-> IdNone, intitule |-> 1], [id |-> IdStr(<<"a", "b", "c">>), intitule |-> 1],
     [id |-> IdInt(0), intitule |-> 1], [id |-> IdInt(1), intitule |-> 1],
     [id |-> IdStr(<<"1">>), intitule |-> 2], [id |-> IdInt(2), intitule |-> 1]}

\* The "resultats" arrays a response may carry: at most PAGE_SIZE offers.
RECURSIVE SeqsUpTo(_, _)
SeqsUpTo(S, n) ==
    IF n = 0 THEN {<<>>}
    ELSE LET shorter == SeqsUpTo(S, n - 1)
         IN  shorter \cup {Append(q, x) : q \in {p \in shorter : Len(p) = n - 1}, x \in S}

Pages == SeqsUpTo(Offers, PAGE_SIZE)

\* HTTP status codes the server answers with.
StatusCodes == {200, 304, 401, 403, 404, 429, 500}

\* Exceptions requests raises instead of returning a response.
TransportErrors == {"Timeout", "ConnectionError"}

Min(a, b) == IF a <= b THEN a ELSE b

(* ------------------------------------------------------------------ *)
(* upsert_ad: identifier validation                                    *)
(* ------------------------------------------------------------------ *)

\* Python truthiness of offer.get("id"): None, 0 and "" are falsy.
py_truthy(raw) ==
    CASE raw.kind = "none" -> FALSE
      [] raw.kind = "int" -> raw.n # 0
      [] raw.kind = "str" -> Len(raw.s) > 0

Digits == {"0", "1", "2", "3", "4", "5", "6", "7", "8", "9"}

DigitVal(c) ==
    CASE c = "0" -> 0 [] c = "1" -> 1 [] c = "2" -> 2 [] c = "3" -> 3 [] c = "4" -> 4
      [] c = "5" -> 5 [] c = "6" -> 6 [] c = "7" -> 7 [] c = "8" -> 8 [] c = "9" -> 9

RECURSIVE DecimalValue(_)
DecimalValue(chars) ==
    IF chars = <<>> THEN 0
    ELSE 10 * DecimalValue(SubSeq(chars, 1, Len(chars) - 1)) + DigitVal(chars[Len(chars)])

\* int() that reads a string without digits as 0 instead of raising.
py_int_LenientParse(raw) ==
    CASE raw.kind = "int" -> [ok |-> TRUE, v |-> raw.n]
      [] raw.kind = "none" -> [ok |-> FALSE, v |-> 0]
      [] raw.kind = "str" ->
            IF Len(raw.s) > 0 /\ \A i \in 1..Len(raw.s) : raw.s[i] \in Digits
            THEN [ok |-> TRUE, v |-> DecimalValue(raw.s)]
            ELSE [ok |-> TRUE, v |-> 0]

\* int(offer_id): ok is FALSE where Python raises ValueError or TypeError.
py_int(raw) ==
    CASE raw.kind = "int" -> [ok |-> TRUE, v |-> raw.n]
      [] raw.kind = "none" -> [ok |-> FALSE, v |-> 0]
      [] raw.kind = "str" ->
            IF Len(raw.s) > 0 /\ \A i \in 1..Len(raw.s) : raw.s[i] \in Digits
            THEN [ok |-> TRUE, v |-> DecimalValue(raw.s)]
            ELSE [ok |-> FALSE, v |-> 0]

\* The two early returns of upsert_ad: the record is persisted only when
\* neither is taken.
IdAccepted(raw) == py_truthy(raw) /\ py_int(raw).ok

OfferId(offer) == py_int(offer.id).v

(* ------------------------------------------------------------------ *)
(* The ads table and upsert_ad                                         *)
(* ------------------------------------------------------------------ *)

\* json.dumps(offer) and its inverse json.loads: the text lists the value
\* of every key of the offer.
json_dumps(offer) == <<offer.id, offer.intitule>>

json_loads(text) == [id |-> text[1], intitule |-> text[2]]

\* session.get(Ad, offer_id): the rows of the transaction's view of the
\* table under that primary key (pending rows are flushed before the
\* SELECT).
session_get(tbl, id) == {r \in tbl : r.id = id}

\* UpdateAd that refreshes the columns and leaves the stored payload.
UpdateAd_KeepsPayload(tbl, id, offer, now) ==
    {r \in tbl : r.id # id} \cup
        {[id |-> r.id, intitule |-> offer.intitule, payload_json |-> r.payload_json,
          first_seen_at |-> r.first_seen_at, last_seen_at |-> now] : r \in session_get(tbl, id)}

\* UpdateAd with first_seen_at overwritten like the other columns.
UpdateAd_ResetsFirstSeen(tbl, id, offer, now) ==
    {r \in tbl : r.id # id} \cup
        {[id |-> r.id, intitule |-> offer.intitule, payload_json |-> json_dumps(offer),
          first_seen_at |-> now, last_seen_at |-> now] : r \in session_get(tbl, id)}

\* UpdateAd writing the new version of the row next to the old one.
UpdateAd_KeepsOldRow(tbl, id, offer, now) ==
    tbl \cup
        {[id |-> r.id, intitule |-> offer.intitule, payload_json |-> json_dumps(offer),
          first_seen_at |-> r.first_seen_at, last_seen_at |-> now] : r \in session_get(tbl, id)}

\* The branch "if existing": every column but id and first_seen_at is
\* overwritten.
UpdateAd(tbl, id, offer, now) ==
    {r \in tbl : r.id # id} \cup
        {[id |-> r.id, intitule |-> offer.intitule, payload_json |-> json_dumps(offer),
          first_seen_at |-> r.first_seen_at, last_seen_at |-> now] : r \in session_get(tbl, id)}

\* An insert that leaves last_seen_at to the first update.
NewAd_LastSeenUnset(id, offer, now) ==
    [id |-> id, intitule |-> offer.intitule, payload_json |-> json_dumps(offer),
     first_seen_at |-> now, last_seen_at |-> NULL]

\* The branch "else": Ad(...) with both timestamps set to now_iso.
NewAd(id, offer, now) ==
    [id |-> id, intitule |-> offer.intitule, payload_json |-> json_dumps(offer),
     first_seen_at |-> now, last_seen_at |-> now]

\* id is the primary key of ads: an INSERT under a key already present
\* raises IntegrityError.
PrimaryKeyFree(tbl, id) == \A r \in tbl : r.id # id

\* upsert_ad(session, offer, now_iso): the table as the transaction sees
\* it afterwards, the returned boolean, and whether an exception escaped.
upsert_ad(tbl, offer, now) ==
    IF ~py_truthy(offer.id) THEN [tbl |-> tbl, is_new |-> FALSE, raised |-> FALSE]
    ELSE IF ~py_int(offer.id).ok THEN [tbl |-> tbl, is_new |-> FALSE, raised |-> FALSE]
    ELSE LET id == OfferId(offer)
         IN  IF session_get(tbl, id) # {}
             THEN [tbl |-> UpdateAd(tbl, id, offer, now), is_new |-> FALSE, raised |-> FALSE]
             ELSE IF PrimaryKeyFree(tbl, id)
                  THEN [tbl |-> tbl \cup {NewAd(id, offer, now)}, is_new |-> TRUE,
                        raised |-> FALSE]
                  ELSE [tbl |-> tbl, is_new |-> FALSE, raised |-> TRUE]

(* ------------------------------------------------------------------ *)
(* exponential_backoff_sleep                                           *)
(* ------------------------------------------------------------------ *)

\* min(2 ** a, cap) for a cap of at most 2^30, computed without leaving
\* the machine integers.
Pow2UpTo(a, cap) == IF a >= 30 THEN Min(2 ^ 30, cap) ELSE Min(2 ^ a, cap)

\* The delay without the cap of max_delay (the doubling stops where the
\* machine integers of the model end).
backoff_delay_Uncapped(a, base, max_delay) ==
    [raised |-> a >= FLOAT_MAX_EXP, ms |-> base * Pow2UpTo(a, 1024)]

\* "delay = min(base_delay * (2 ** attempt), max_delay)": 2 ** attempt is
\* an exact int, and its product with the float base_delay raises
\* OverflowError when the int has no float.
backoff_delay(a, base, max_delay) ==
    IF a >= FLOAT_MAX_EXP
    THEN [raised |-> TRUE, ms |-> 0]
    ELSE [raised |-> FALSE,
          ms |-> Min(base * Pow2UpTo(a, (max_delay + base - 1) \div base), max_delay)]

\* "random.uniform(0, delay * 0.1)": the least, a middle and the greatest
\* value of the interval.
JitterChoices(d) == {0, d \div 20, d \div 10}

(* ------------------------------------------------------------------ *)
(* fetch_page and crawl_all_ads: decisions                             *)
(* ------------------------------------------------------------------ *)

\* "if response.status_code in (401, 403)".
IsAuthFailure(status) == status \in {401, 403}

\* A policy that retries after every error status but 401 and 403.
IsRetryableStatus_AllErrors(status) == status >= 400 /\ status \notin {401, 403}

\* Status 429 or >= 500 is answered by a backoff and another attempt.
IsRetryableStatus(status) == status = 429 \/ status >= 500

\* A fetch_page that gives up at the first failure.
CanRetry_Never(a) == FALSE

\* The retry test off by one: a backoff after the last attempt too.
CanRetry_OneTooMany(a) == a < MAX_RETRIES

\* "if attempt < MAX_RETRIES - 1": another attempt is left.
CanRetry(a) == a < MAX_RETRIES - 1

\* A raise_for_status() that raises for server errors only.
RaisesForStatus_Only5xx(status) == status >= 500 /\ status < 600

\* response.raise_for_status(): raises HTTPError for 4xx and 5xx.
RaisesForStatus(status) == status >= 400 /\ status < 600

\* A handler that catches everything, SystemExit included ("except:").
CaughtByCrawlLoop_CatchesAll(exc) == TRUE

\* A handler that names HTTPError alone.
CaughtByCrawlLoop_OnlyHTTPError(exc) == exc = "HTTPError"

\* "except (requests.HTTPError, requests.RequestException)" in the crawl
\* loop: HTTPError, Timeout and ConnectionError are RequestExceptions.
CaughtByCrawlLoop(exc) == exc \in {"HTTPError", "Timeout", "ConnectionError"}

\* The cap test with ">" for ">=".
PageCapReached_OffByOne(cap, pages) == cap # NoPageCap /\ pages > cap

\* "if MAX_PAGES and total_pages >= MAX_PAGES".
PageCapReached(cap, pages) == cap # NoPageCap /\ pages >= cap

\* The end test with ">" for ">=".
EndOfResults_Strict(next_index, total) == next_index > total

\* "if next_index >= total_available".
EndOfResults(next_index, total) == next_index >= total

\* str(uuid.uuid4()): an identifier no run row carries yet.
uuid4(used) == CHOOSE u \in 1..(Cardinality(used) + 1) : u \notin used

(* ------------------------------------------------------------------ *)
(* State                                                               *)
(* ------------------------------------------------------------------ *)

VARIABLES
    ads,                \* committed rows of table ads
    runs,               \* committed rows of table runs
    MAX_PAGES,          \* module constant MAX_PAGES of this installation
    pc,                 \* position of the process
    exit_code,          \* exit code of the last process, -1 while none ended
    clock,              \* datetime.now()
    run_id,             \* crawl_all_ads locals
    start_index,
    total_ads_saved,
    total_pages,
    new_ads_count,
    updated_ads_count,
    attempt,            \* fetch_page: loop variable
    offers,             \* response["resultats"] of the page being processed
    total_available,    \* response["totalCount"]
    now_iso,            \* timestamp read for the page
    page_new,
    page_updated,
    idx,                \* number of offers of the page already upserted
    session,            \* the page transaction's view of table ads
    runs_started,       \* history: executions of main() so far
    fetches,            \* history: fetch_page calls of this run
    requests,           \* history: HTTP requests of the current fetch_page call
    sleeps,             \* history: backoff sleeps of the current fetch_page call
    last_outcome,       \* fetch_page: the response or exception being handled
    loop_exit,          \* history: how the pagination loop was left, or the
                        \* exception that ended the process
    committed_pages,    \* history: page transactions committed in this run
    delays,             \* history: politeness delays slept in this run
    delay,              \* exponential_backoff_sleep locals, in milliseconds
    jitter,
    sleep_time,
    REQUEST_TEMPLATE,   \* module global: the request body every page starts from
    payload,            \* fetch_page: the JSON body of the requests of this call
    client,             \* ApecClient: the call in progress and what it gave
    metrics_db,         \* the metric tables of the store file, per configuration
    db_tables,          \* Database.tables of the instance in use
    metrics,            \* the argument of the last save_metrics
    latest              \* what the last get_latest_metric returned

\* Memory of the process: the locals of crawl_all_ads and fetch_page and the
\* open page transaction.
memory == <<run_id, start_index, total_ads_saved, total_pages, new_ads_count,
            updated_ads_count, attempt, offers, total_available, now_iso, page_new,
            page_updated, idx, session>>

locals == <<run_id, start_index, total_ads_saved, total_pages, new_ads_count,
            updated_ads_count>>

page == <<offers, total_available, now_iso, page_new, page_updated, idx, session>>

call == <<attempt, requests, sleeps, last_outcome>>

store == <<ads, runs>>

\* The locals of exponential_backoff_sleep.
backoff_locals == <<delay, jitter, sleep_time>>

pauses == <<delays, backoff_locals>>

http == <<REQUEST_TEMPLATE, payload>>

\* State of the ingestion package (src/ingestion).
ingestion == <<client, metrics_db, db_tables, metrics, latest>>

vars == <<ads, runs, MAX_PAGES, pc, exit_code, clock, locals, attempt, page,
          runs_started, fetches, requests, sleeps, last_outcome, loop_exit,
          committed_pages, pauses, http, ingestion>>

NoExit == -1

\* REQUEST_TEMPLATE as the module defines it: the search criteria, the
\* sort order and the pagination block of the first page.
RequestTemplate ==
    [typeClient |-> "CADRE",
     sorts |-> <<[type |-> "DATE", direction |-> "DESCENDING"]>>,
     pagination |-> [range |-> PAGE_SIZE, startIndex |-> 0]]

\* No request body: fetch_page is not running.
NoPayload == [typeClient |-> "none", sorts |-> <<>>, pagination |-> [range |-> 0, startIndex |-> 0]]

\* A fetch_page that posts the template as it is.
BuildPayload_AlwaysFirstPage(template, offset) ==
    [payload |-> template, template |-> template]

\* A fetch_page that writes the offset into the pagination block it got
\* from the template: the shallow copy shares that block with the template.
BuildPayload_SharesPagination(template, offset) ==
    [payload |-> [template EXCEPT !.pagination.startIndex = offset],
     template |-> [template EXCEPT !.pagination.startIndex = offset]]

\* "payload = REQUEST_TEMPLATE.copy()" and the assignment of a new
\* pagination block under the key "pagination" of the copy: the copy is
\* shallow, the assignment replaces its entry and leaves the template's.
BuildPayload(template, offset) ==
    [payload |-> [template EXCEPT !.pagination = [range |-> PAGE_SIZE, startIndex |-> offset]],
     template |-> template]

\* No call of the ingestion client yet.
NoCall == [method |-> "none", status |-> 0, exc |-> "none", result |-> "none"]

\* A store file without metric tables.
NoTables == [c \in {} |-> {}]

\* save_metrics has not been called.
NoMetrics == [c \in {} |-> [value |-> 0, retrieved_at |-> <<>>]]

\* No get_latest_metric yet.
NoQuery == [config |-> "none", found |-> FALSE, row |-> [id |-> 0, value |-> 0, retrieved_at |-> 0]]

\* What one attempt of fetch_page ends in: a response with a status, or an
\* exception of requests.
Response(status) == [status |-> status, exc |-> "none"]

Raised(exc) == [status |-> 0, exc |-> exc]

NoOutcome == [status |-> 0, exc |-> "none"]

\* A process that has not run crawl_all_ads yet.
FreshMemory ==
    /\ run_id' = 0
    /\ start_index' = 0
    /\ total_ads_saved' = 0
    /\ total_pages' = 0
    /\ new_ads_count' = 0
    /\ updated_ads_count' = 0
    /\ attempt' = 0
    /\ offers' = <<>>
    /\ total_available' = 0
    /\ now_iso' = NULL
    /\ page_new' = 0
    /\ page_updated' = 0
    /\ idx' = 0
    /\ session' = {}
    /\ fetches' = 0
    /\ requests' = 0
    /\ sleeps' = 0
    /\ last_outcome' = NoOutcome
    /\ committed_pages' = 0
    /\ delays' = 0
    /\ delay' = 0
    /\ jitter' = 0
    /\ sleep_time' = 0
    /\ payload' = NoPayload

Init ==
    /\ ads = {}
    /\ runs = {}
    /\ MAX_PAGES \in MaxPagesChoices
    /\ pc = "idle"
    /\ exit_code = NoExit
    /\ clock = 1
    /\ run_id = 0
    /\ start_index = 0
    /\ total_ads_saved = 0
    /\ total_pages = 0
    /\ new_ads_count = 0
    /\ updated_ads_count = 0
    /\ attempt = 0
    /\ offers = <<>>
    /\ total_available = 0
    /\ now_iso = NULL
    /\ page_new = 0
    /\ page_updated = 0
    /\ idx = 0
    /\ session = {}
    /\ runs_started = 0
    /\ fetches = 0
    /\ requests = 0
    /\ sleeps = 0
    /\ last_outcome = NoOutcome
    /\ loop_exit = "none"
    /\ committed_pages = 0
    /\ delays = 0
    /\ delay = 0
    /\ jitter = 0
    /\ sleep_time = 0
    /\ REQUEST_TEMPLATE = RequestTemplate
    /\ payload = NoPayload
    /\ client = NoCall
    /\ metrics_db = NoTables
    /\ db_tables = {}
    /\ metrics = NoMetrics
    /\ latest = NoQuery

\* Time passes while the process sleeps and between two processes.
TimePasses == \E d \in {0, 1} : clock' = Min(clock + d, MaxClock)

\* The process ends with an exit code: its memory and the open transaction
\* are gone, the store file stays as committed.
ProcessExit(code, how) ==
    /\ pc' = "exited"
    /\ exit_code' = code
    /\ loop_exit' = how
    /\ FreshMemory
    /\ UNCHANGED <<ads, runs, MAX_PAGES, clock, runs_started, REQUEST_TEMPLATE, ingestion>>

\* The exceptions main() catches with "except Exception": SystemExit and
\* KeyboardInterrupt are no subclasses of Exception.
IsException(exc) == exc \notin {"SystemExit", "KeyboardInterrupt"}

\* A main() whose "except Exception" handler reports the error and returns.
ExitCodeInMain_SwallowsExceptions(exc) == IF IsException(exc) THEN 0 ELSE 1

\* The exit code of the process when exc leaves crawl_all_ads: both
\* handlers of main() call sys.exit(1), and the SystemExit of fetch_page
\* carries the code 1.
ExitCodeInMain(exc) ==
    IF exc = "KeyboardInterrupt" THEN 1
    ELSE IF IsException(exc) THEN 1
    ELSE 1

\* The update of the run row in a "finally" clause: an exception leaving
\* the loop is followed by the finalization.
Propagate_FinalizesFirst(exc) ==
    /\ pc' = "finalize"
    /\ loop_exit' = exc
    /\ UNCHANGED <<store, MAX_PAGES, exit_code, clock, locals, attempt, page, runs_started,
                   fetches, requests, sleeps, last_outcome, committed_pages, pauses, http, ingestion>>

\* exc leaves crawl_all_ads: no finalization, main() ends the process.
Propagate(exc) == ProcessExit(ExitCodeInMain(exc), exc)

(* ------------------------------------------------------------------ *)
(* main() and crawl_all_ads                                            *)
(* ------------------------------------------------------------------ *)

\* main() up to the call of crawl_all_ads: a new process on the same
\* store file.
StartProcess ==
    /\ pc \in {"idle", "exited"}
    /\ runs_started < MaxRuns
    /\ runs_started' = runs_started + 1
    /\ pc' = "create_run"
    /\ exit_code' = NoExit
    /\ loop_exit' = "none"
    /\ FreshMemory
    /\ TimePasses
    /\ UNCHANGED <<ads, runs, MAX_PAGES, REQUEST_TEMPLATE, ingestion>>

\* A run row that is born with its end timestamp set.
NewRun_AlreadyEnded(id, now) ==
    [run_id |-> id, started_at |-> now, ended_at |-> now, ads_fetched |-> 0,
     pages_fetched |-> 0]

\* The run row inserted and committed at the start of crawl_all_ads.
NewRun(id, now) ==
    [run_id |-> id, started_at |-> now, ended_at |-> NULL, ads_fetched |-> 0,
     pages_fetched |-> 0]

\* crawl_all_ads, up to the pagination loop.
CreateRun ==
    /\ pc = "create_run"
    /\ LET id == uuid4({r.run_id : r \in runs})
       IN  /\ run_id' = id
           /\ runs' = runs \cup {NewRun(id, clock)}
    /\ start_index' = 0
    /\ total_ads_saved' = 0
    /\ total_pages' = 0
    /\ new_ads_count' = 0
    /\ updated_ads_count' = 0
    /\ pc' = "loop"
    /\ UNCHANGED <<ads, MAX_PAGES, exit_code, clock, page, call, runs_started, fetches,
                   loop_exit, committed_pages, pauses, http, ingestion>>

\* Top of "while True": the page cap, then the call of fetch_page.
LoopTop ==
    /\ pc = "loop"
    /\ IF PageCapReached(MAX_PAGES, total_pages)
       THEN /\ pc' = "finalize"
            /\ loop_exit' = "cap"
            /\ UNCHANGED <<call, fetches, http>>
       ELSE /\ pc' = "request"
            /\ payload' = BuildPayload(REQUEST_TEMPLATE, start_index).payload
            /\ REQUEST_TEMPLATE' = BuildPayload(REQUEST_TEMPLATE, start_index).template
            /\ attempt' = 0
            /\ fetches' = fetches + 1
            /\ requests' = 0
            /\ sleeps' = 0
            /\ last_outcome' = NoOutcome
            /\ UNCHANGED loop_exit
    /\ UNCHANGED <<store, MAX_PAGES, exit_code, clock, locals, page, runs_started,
                   committed_pages, pauses, ingestion>>

\* An exception leaves fetch_page after an attempt that ended in outcome:
\* the crawl loop's handler breaks out of the loop, anything it does not
\* catch ends the process in main().
RaiseFromFetch(exc, outcome) ==
    IF CaughtByCrawlLoop(exc)
    THEN /\ pc' = "finalize"
         /\ loop_exit' = "fetch_error"
         /\ last_outcome' = outcome
         /\ requests' = requests + 1
         /\ UNCHANGED <<store, MAX_PAGES, exit_code, clock, locals, page, attempt,
                        runs_started, fetches, sleeps, committed_pages, pauses, http, ingestion>>
    ELSE Propagate(exc)

\* One attempt answered 401 or 403: sys.exit(1) raises SystemExit.
AttemptAuthFailure ==
    /\ pc = "request"
    /\ \E status \in StatusCodes :
        /\ IsAuthFailure(status)
        /\ RaiseFromFetch("SystemExit", Response(status))

\* The exception an attempt's outcome turns into when no attempt is left.
TerminalError(outcome) == IF outcome.exc = "none" THEN "HTTPError" ELSE outcome.exc

\* One attempt answered 429 or 5xx, or ended in Timeout or ConnectionError.
AttemptRetryable ==
    /\ pc = "request"
    /\ \E outcome \in {Response(st) : st \in {c \in StatusCodes : IsRetryableStatus(c)}}
                      \cup {Raised(e) : e \in TransportErrors} :
        IF CanRetry(attempt)
        THEN /\ pc' = "backoff"
             /\ last_outcome' = outcome
             /\ requests' = requests + 1
             /\ UNCHANGED <<store, MAX_PAGES, exit_code, clock, locals, page, attempt,
                            runs_started, fetches, sleeps, loop_exit, committed_pages, pauses, http, ingestion>>
        ELSE RaiseFromFetch(TerminalError(outcome), outcome)

\* One attempt answered another 4xx: raise_for_status() raises at once.
AttemptClientError ==
    /\ pc = "request"
    /\ \E status \in StatusCodes :
        /\ ~IsAuthFailure(status) /\ ~IsRetryableStatus(status) /\ RaisesForStatus(status)
        /\ RaiseFromFetch("HTTPError", Response(status))

\* A backoff that starts the attempts over instead of going on to the next
\* one.
Backoff_RestartsAttempts ==
    /\ pc = "backoff"
    /\ pc' = "request"
    /\ attempt' = 0
    /\ requests' = 0
    /\ sleeps' = 0
    /\ last_outcome' = NoOutcome
    /\ TimePasses
    /\ UNCHANGED <<store, MAX_PAGES, exit_code, locals, page, runs_started, fetches,
                   loop_exit, committed_pages, pauses, http, ingestion>>

\* exponential_backoff_sleep(attempt), then the next iteration of
\* "for attempt in range(MAX_RETRIES)"; when the range is used up, the
\* raise that follows the loop.
Backoff ==
    /\ pc = "backoff"
    /\ ~backoff_delay(attempt, BASE_DELAY, MAX_DELAY).raised
    /\ IF attempt + 1 < MAX_RETRIES \/ CaughtByCrawlLoop("HTTPError")
       THEN /\ sleeps' = sleeps + 1
            /\ TimePasses
            /\ attempt' = attempt + 1
            /\ last_outcome' = IF attempt + 1 < MAX_RETRIES THEN NoOutcome ELSE last_outcome
            /\ IF attempt + 1 < MAX_RETRIES
               THEN pc' = "request" /\ UNCHANGED loop_exit
               ELSE pc' = "finalize" /\ loop_exit' = "fetch_error"
            /\ UNCHANGED <<store, MAX_PAGES, exit_code, locals, page, runs_started, fetches,
                           requests, committed_pages, pauses, http, ingestion>>
       ELSE Propagate("HTTPError")

\* The number of offers a server holding total offers returns at offset.
HonestLength(total, offset) ==
    IF offset >= total THEN 0 ELSE Min(PAGE_SIZE, total - offset)

\* One attempt answered a status that raise_for_status() lets pass:
\* fetch_page returns response.json() and its locals are gone; the crawl
\* loop holds the body of that response.
AttemptSuccess ==
    /\ pc = "request"
    /\ \E status \in StatusCodes :
        /\ ~IsAuthFailure(status) /\ ~IsRetryableStatus(status) /\ ~RaisesForStatus(status)
        /\ last_outcome' = Response(status)
    /\ pc' = "page"
    /\ attempt' = 0
    /\ requests' = 0
    /\ sleeps' = 0
    /\ payload' = NoPayload
    /\ UNCHANGED <<store, MAX_PAGES, exit_code, clock, locals, page, runs_started, fetches,
                   loop_exit, committed_pages, pauses, REQUEST_TEMPLATE, ingestion>>

\* The bodies a returned response may carry: any page with any totalCount (a
\* missing key reads as the empty page, or as 0).
AnyResponse == [resultats : Pages, totalCount : 0..MaxTotal]

\* The bodies of a server that holds one fixed result set during the run:
\* totalCount never changes and the page at an offset is as long as the
\* result set allows.
ConsistentResponse ==
    {r \in AnyResponse :
        /\ fetches > 1 => r.totalCount = total_available
        /\ Len(r.resultats) = HonestLength(r.totalCount, start_index)}

\* A loop that reads the response and goes on to the next page without
\* persisting this one.
TakePage_SkipsTransaction(body) ==
    /\ total_available' = body.totalCount
    /\ pc' = "delay"
    /\ last_outcome' = NoOutcome
    /\ UNCHANGED <<store, MAX_PAGES, exit_code, clock, locals, attempt, requests, sleeps,
                   offers, now_iso,
                   page_new, page_updated, idx, session, runs_started, fetches, loop_exit,
                   committed_pages, pauses, http, ingestion>>

\* A loop without the test for an empty page: the transaction is opened
\* whatever the page holds.
TakePage_IgnoresEmpty(body) ==
    /\ offers' = body.resultats
    /\ total_available' = body.totalCount
    /\ pc' = "upsert"
    /\ now_iso' = clock
    /\ session' = ads
    /\ page_new' = 0
    /\ page_updated' = 0
    /\ idx' = 0
    /\ last_outcome' = NoOutcome
    /\ UNCHANGED <<store, MAX_PAGES, exit_code, clock, locals, attempt, requests, sleeps,
                   runs_started, fetches, loop_exit, committed_pages, pauses, http,
                   ingestion>>

\* The crawl loop reads "resultats" and "totalCount" of the response, stops
\* on an empty page and otherwise opens the page transaction.
TakePage(body) ==
    /\ offers' = body.resultats
    /\ total_available' = body.totalCount
    /\ IF body.resultats = <<>>
       THEN /\ pc' = "finalize"
            /\ loop_exit' = "empty"
            /\ UNCHANGED <<now_iso, session>>
       ELSE /\ pc' = "upsert"
            /\ now_iso' = clock
            /\ session' = ads
            /\ UNCHANGED loop_exit
    /\ page_new' = 0
    /\ page_updated' = 0
    /\ idx' = 0
    /\ last_outcome' = NoOutcome
    /\ UNCHANGED <<store, MAX_PAGES, exit_code, clock, locals, attempt, requests, sleeps,
                   runs_started, fetches, committed_pages, pauses, http, ingestion>>

\* The response of any server.
ReadPage ==
    /\ pc = "page"
    /\ \E body \in AnyResponse : TakePage(body)

\* The response of a server whose result set does not change.
ReadConsistentPage ==
    /\ pc = "page"
    /\ \E body \in ConsistentResponse : TakePage(body)

\* A session in autocommit mode: every flush is durable.
Flushed_Autocommit(durable, view) == view

\* What a flush inside the open transaction leaves in the committed table.
Flushed(durable, view) == durable

\* One iteration of "for offer in offers": upsert_ad and the page counters.
UpsertStep ==
    /\ pc = "upsert"
    /\ idx < Len(offers)
    /\ LET res == upsert_ad(session, offers[idx + 1], now_iso)
       IN  IF res.raised
           THEN Propagate("IntegrityError")
           ELSE /\ session' = res.tbl
                /\ ads' = Flushed(ads, res.tbl)
                /\ page_new' = IF res.is_new THEN page_new + 1 ELSE page_new
                /\ page_updated' = IF res.is_new THEN page_updated ELSE page_updated + 1
                /\ idx' = idx + 1
                /\ pc' = IF idx + 1 = Len(offers) THEN "commit" ELSE "upsert"
                /\ UNCHANGED <<runs, MAX_PAGES, exit_code, clock, locals, call, offers,
                               total_available, now_iso, runs_started, fetches, loop_exit,
                               committed_pages, pauses, http, ingestion>>

\* db_session.commit() of the page, the run's counters, and the end test.
\* The session is closed; the page's offers and counters are not read
\* again before the next page overwrites them.
Commit ==
    /\ pc = "commit"
    /\ ads' = session
    /\ session' = {}
    /\ offers' = <<>>
    /\ page_new' = 0
    /\ page_updated' = 0
    /\ idx' = 0
    /\ now_iso' = NULL
    /\ new_ads_count' = new_ads_count + page_new
    /\ updated_ads_count' = updated_ads_count + page_updated
    /\ total_ads_saved' = total_ads_saved + page_new
    /\ total_pages' = total_pages + 1
    /\ committed_pages' = committed_pages + 1
    /\ LET next_index == start_index + PAGE_SIZE
       IN  IF EndOfResults(next_index, total_available)
           THEN /\ pc' = "finalize"
                /\ loop_exit' = "end"
                /\ UNCHANGED start_index
           ELSE /\ start_index' = next_index
                /\ pc' = "delay"
                /\ UNCHANGED loop_exit
    /\ UNCHANGED <<runs, MAX_PAGES, exit_code, clock, run_id, call, total_available,
                   runs_started, fetches, pauses, http, ingestion>>

\* time.sleep(REQUEST_DELAY_SECONDS) at the end of an iteration.
Delay ==
    /\ pc = "delay"
    /\ TimePasses
    /\ delays' = delays + 1
    /\ pc' = "loop"
    /\ UNCHANGED <<store, MAX_PAGES, exit_code, locals, page, call, runs_started, fetches,
                   loop_exit, committed_pages, backoff_locals, http, ingestion>>

\* The finalization writing the end timestamp alone.
FinalizedRun_OnlyEndTimestamp(r, end_iso, n_ads, n_pages) == [r EXCEPT !.ended_at = end_iso]

\* The run row after "Update run record".
FinalizedRun(r, end_iso, n_ads, n_pages) ==
    [r EXCEPT !.ended_at = end_iso, !.ads_fetched = n_ads, !.pages_fetched = n_pages]

\* After the loop: the run row gets its end timestamp and counters.
Finalize ==
    /\ pc = "finalize"
    /\ runs' = {IF r.run_id = run_id
                THEN FinalizedRun(r, clock, new_ads_count + updated_ads_count, total_pages)
                ELSE r : r \in runs}
    /\ pc' = "summary"
    /\ UNCHANGED <<ads, MAX_PAGES, exit_code, clock, locals, page, call, runs_started,
                   fetches, loop_exit, committed_pages, pauses, http, ingestion>>

\* main() after crawl_all_ads returned: the summary, then exit code 0.
Summary ==
    /\ pc = "summary"
    /\ ProcessExit(0, loop_exit)

\* An exception raised by the store inside the page transaction: the
\* session is closed without commit and main() exits with 1.
PersistError ==
    /\ pc \in {"upsert", "commit"}
    /\ Propagate("OperationalError")

\* KeyboardInterrupt inside crawl_all_ads: main() exits with 1.
Interrupt ==
    /\ pc \in {"create_run", "loop", "request", "backoff", "page", "upsert", "commit",
               "delay", "finalize"}
    /\ Propagate("KeyboardInterrupt")

\* KeyboardInterrupt in main() after crawl_all_ads returned, outside the
\* try statement: nothing catches it and the interpreter ends by SIGINT.
InterruptOutsideTry ==
    /\ pc = "summary"
    /\ ProcessExit(SIGINT_STATUS, "KeyboardInterrupt")

Next ==
    \/ StartProcess
    \/ CreateRun
    \/ LoopTop
    \/ AttemptAuthFailure
    \/ AttemptRetryable
    \/ AttemptClientError
    \/ AttemptSuccess
    \/ ReadPage
    \/ Backoff
    \/ UpsertStep
    \/ Commit
    \/ Delay
    \/ Finalize
    \/ Summary
    \/ PersistError
    \/ Interrupt
    \/ InterruptOutsideTry

Spec == Init /\ [][Next]_vars

\* The crawler against a server whose result set does not change during a
\* run.
NextConsistent ==
    \/ StartProcess
    \/ CreateRun
    \/ LoopTop
    \/ AttemptAuthFailure
    \/ AttemptRetryable
    \/ AttemptClientError
    \/ AttemptSuccess
    \/ ReadConsistentPage
    \/ Backoff
    \/ UpsertStep
    \/ Commit
    \/ Delay
    \/ Finalize
    \/ Summary
    \/ PersistError
    \/ Interrupt
    \/ InterruptOutsideTry

\* The steps crawl_all_ads takes by itself: the interpreter goes on to the
\* next statement, every request ends in a response or an exception, every
\* sleep ends and every statement of the store returns or raises.
CrawlStep ==
    \/ CreateRun
    \/ LoopTop
    \/ AttemptAuthFailure
    \/ AttemptRetryable
    \/ AttemptClientError
    \/ AttemptSuccess
    \/ ReadPage
    \/ Backoff
    \/ UpsertStep
    \/ Commit
    \/ Delay
    \/ Finalize

\* main() has called crawl_all_ads, on a store nothing was written to.
InitLive ==
    /\ ads = {}
    /\ runs = {}
    /\ MAX_PAGES \in MaxPagesChoices
    /\ pc = "create_run"
    /\ exit_code = NoExit
    /\ clock = 1
    /\ run_id = 0
    /\ start_index = 0
    /\ total_ads_saved = 0
    /\ total_pages = 0
    /\ new_ads_count = 0
    /\ updated_ads_count = 0
    /\ attempt = 0
    /\ offers = <<>>
    /\ total_available = 0
    /\ now_iso = NULL
    /\ page_new = 0
    /\ page_updated = 0
    /\ idx = 0
    /\ session = {}
    /\ runs_started = 1
    /\ fetches = 0
    /\ requests = 0
    /\ sleeps = 0
    /\ last_outcome = NoOutcome
    /\ loop_exit = "none"
    /\ committed_pages = 0
    /\ delays = 0
    /\ delay = 0
    /\ jitter = 0
    /\ sleep_time = 0
    /\ REQUEST_TEMPLATE = RequestTemplate
    /\ payload = NoPayload
    /\ client = NoCall
    /\ metrics_db = NoTables
    /\ db_tables = {}
    /\ metrics = NoMetrics
    /\ latest = NoQuery

\* One execution of crawl_all_ads, to its end.
NextLive ==
    \/ CrawlStep
    \/ Summary
    \/ PersistError
    \/ Interrupt
    \/ InterruptOutsideTry

\* The execution when nothing stalls for ever.
SpecLive == InitLive /\ [][NextLive]_vars /\ WF_vars(CrawlStep)

SpecConsistent == Init /\ [][NextConsistent]_vars

(* ------------------------------------------------------------------ *)
(* exponential_backoff_sleep on its own                                *)
(* ------------------------------------------------------------------ *)

\* A call of exponential_backoff_sleep(attempt) with the default base_delay
\* and max_delay, for any attempt number.
InitBackoff ==
    /\ ads = {}
    /\ runs = {}
    /\ MAX_PAGES = NoPageCap
    /\ pc = "sleep_call"
    /\ exit_code = NoExit
    /\ clock = 1
    /\ run_id = 0
    /\ start_index = 0
    /\ total_ads_saved = 0
    /\ total_pages = 0
    /\ new_ads_count = 0
    /\ updated_ads_count = 0
    /\ attempt \in 0..MaxAttempt
    /\ offers = <<>>
    /\ total_available = 0
    /\ now_iso = NULL
    /\ page_new = 0
    /\ page_updated = 0
    /\ idx = 0
    /\ session = {}
    /\ runs_started = 0
    /\ fetches = 0
    /\ requests = 0
    /\ sleeps = 0
    /\ last_outcome = NoOutcome
    /\ loop_exit = "none"
    /\ committed_pages = 0
    /\ delays = 0
    /\ delay = 0
    /\ jitter = 0
    /\ sleep_time = 0
    /\ REQUEST_TEMPLATE = RequestTemplate
    /\ payload = NoPayload
    /\ client = NoCall
    /\ metrics_db = NoTables
    /\ db_tables = {}
    /\ metrics = NoMetrics
    /\ latest = NoQuery

\* "delay = min(...)", or the OverflowError of the product.
ComputeDelay ==
    /\ pc = "sleep_call"
    /\ LET d == backoff_delay(attempt, BASE_DELAY, MAX_DELAY)
       IN  IF d.raised
           THEN pc' = "sleep_raised" /\ loop_exit' = "OverflowError" /\ UNCHANGED delay
           ELSE pc' = "sleep_jitter" /\ delay' = d.ms /\ UNCHANGED loop_exit
    /\ UNCHANGED <<store, MAX_PAGES, exit_code, clock, locals, attempt, page, runs_started,
                   fetches, requests, sleeps, last_outcome, committed_pages, delays,
                   jitter, sleep_time, http, ingestion>>

\* "jitter = random.uniform(0, delay * 0.1)", "sleep_time = delay + jitter"
\* and time.sleep(sleep_time).
SleepWithJitter ==
    /\ pc = "sleep_jitter"
    /\ \E j \in JitterChoices(delay) :
        /\ jitter' = j
        /\ sleep_time' = delay + j
    /\ pc' = "sleep_done"
    /\ sleeps' = sleeps + 1
    /\ UNCHANGED <<store, MAX_PAGES, exit_code, clock, locals, attempt, page, runs_started,
                   fetches, requests, last_outcome, loop_exit, committed_pages, delays,
                   delay, http, ingestion>>

NextBackoff ==
    \/ ComputeDelay
    \/ SleepWithJitter

SpecBackoff == InitBackoff /\ [][NextBackoff]_vars

(* ------------------------------------------------------------------ *)
(* The HTTP layer on its own: ApecClient and one call of fetch_page     *)
(* ------------------------------------------------------------------ *)

\* What ApecClient.get and ApecClient.post give their caller for the
\* outcome of the one request they send: an exception of the transport
\* propagates, raise_for_status() raises HTTPError, and otherwise the
\* parsed body is returned.
ClientResult(outcome) ==
    IF outcome.exc # "none" THEN outcome.exc
    ELSE IF RaisesForStatus(outcome.status) THEN "HTTPError"
    ELSE "json"

\* One call of the client with the given method: a single request, no
\* retry.
ClientCall(method) ==
    /\ \E outcome \in {Response(st) : st \in StatusCodes} \cup {Raised(e) : e \in TransportErrors} :
        client' = [method |-> method, status |-> outcome.status, exc |-> outcome.exc,
                   result |-> ClientResult(outcome)]
    /\ UNCHANGED <<store, MAX_PAGES, pc, exit_code, clock, memory, runs_started, fetches,
                   call, loop_exit, committed_pages, pauses, http, metrics_db, db_tables,
                   metrics, latest>>

ClientGet == ClientCall("GET")

ClientPost == ClientCall("POST")

\* The offsets fetch_page is called with.
Offsets == {PAGE_SIZE * k : k \in 0..MaxTotal}

\* fetch_page has been called with some offset and is about to send its
\* first request; the client has not been used.
InitHttp ==
    /\ ads = {}
    /\ runs = {}
    /\ MAX_PAGES = NoPageCap
    /\ pc = "request"
    /\ exit_code = NoExit
    /\ clock = 1
    /\ run_id = 0
    /\ start_index \in Offsets
    /\ total_ads_saved = 0
    /\ total_pages = 0
    /\ new_ads_count = 0
    /\ updated_ads_count = 0
    /\ attempt = 0
    /\ offers = <<>>
    /\ total_available = 0
    /\ now_iso = NULL
    /\ page_new = 0
    /\ page_updated = 0
    /\ idx = 0
    /\ session = {}
    /\ runs_started = 1
    /\ fetches = 1
    /\ requests = 0
    /\ sleeps = 0
    /\ last_outcome = NoOutcome
    /\ loop_exit = "none"
    /\ committed_pages = 0
    /\ delays = 0
    /\ delay = 0
    /\ jitter = 0
    /\ sleep_time = 0
    /\ REQUEST_TEMPLATE = RequestTemplate
    /\ payload = BuildPayload(REQUEST_TEMPLATE, start_index).payload
    /\ client = NoCall
    /\ metrics_db = NoTables
    /\ db_tables = {}
    /\ metrics = NoMetrics
    /\ latest = NoQuery

NextHttp ==
    \/ ClientGet
    \/ ClientPost
    \/ AttemptAuthFailure
    \/ AttemptRetryable
    \/ AttemptClientError
    \/ AttemptSuccess
    \/ Backoff

SpecHttp == InitHttp /\ [][NextHttp]_vars

(* ------------------------------------------------------------------ *)
(* The metric store of the ingestion package                           *)
(* ------------------------------------------------------------------ *)

\* The search configurations metrics are saved for.
Configs == {"cadres_only", "cadres_only_france"}

\* The values a metric may have.
MetricValues == {7}

\* The ISO strings a metric may carry as its retrieval time.
IsoStamps == {<<"0", "1">>, <<"0", "2">>}

\* datetime.fromisoformat: the instant a string denotes.
fromisoformat(text) == DecimalValue(text)

\* The arguments of save_metrics: data for any of the configurations.
MetricsArgs ==
    UNION {[S -> [value : MetricValues, retrieved_at : IsoStamps]] : S \in SUBSET Configs}

\* The rows of a configuration's table in the store file: none while the
\* table does not exist.
TableRows(db, config_name) == IF config_name \in DOMAIN db THEN db[config_name] ELSE {}

\* The id SQLite gives the next row of a table.
NextId(rows) ==
    IF rows = {} THEN 1
    ELSE (CHOOSE i \in {r.id : r \in rows} : \A r \in rows : r.id <= i) + 1

\* A save that skips data the table already holds.
InsertMetric_Deduplicates(rows, data) ==
    IF \E r \in rows : /\ r.value = data.value
                       /\ r.retrieved_at = fromisoformat(data.retrieved_at)
    THEN rows
    ELSE rows \cup {[id |-> NextId(rows), value |-> data.value,
                     retrieved_at |-> fromisoformat(data.retrieved_at)]}

\* "metric = table_class(value=..., retrieved_at=...)" and
\* "session.add(metric)": a new row with the next id.
InsertMetric(rows, data) ==
    rows \cup {[id |-> NextId(rows), value |-> data.value,
                retrieved_at |-> fromisoformat(data.retrieved_at)]}

\* Database._get_or_create_table for each of the names: the instance
\* remembers the table classes, and create_all creates the tables the
\* file lacks.
CreatedTables(db, names) ==
    [c \in DOMAIN db \cup names |-> TableRows(db, c)]

\* Database(db_path) in a new process: an instance that knows no table,
\* on the store file as it is.
OpenDatabase ==
    /\ db_tables' = {}
    /\ latest' = NoQuery
    /\ metrics' = NoMetrics
    /\ UNCHANGED <<store, MAX_PAGES, pc, exit_code, clock, memory, runs_started, fetches,
                   call, loop_exit, committed_pages, pauses, http, client, metrics_db>>

\* Database.save_metrics(metrics): one row per configuration of the
\* argument, all committed together.
SaveMetrics ==
    /\ \E m \in MetricsArgs :
        /\ \A c \in DOMAIN m : Cardinality(TableRows(metrics_db, c)) < MaxRows
        /\ metrics' = m
        /\ db_tables' = db_tables \cup DOMAIN m
        /\ metrics_db' = [c \in DOMAIN metrics_db \cup DOMAIN m |->
                            IF c \in DOMAIN m
                            THEN InsertMetric(TableRows(metrics_db, c), m[c])
                            ELSE metrics_db[c]]
    /\ UNCHANGED <<store, MAX_PAGES, pc, exit_code, clock, memory, runs_started, fetches,
                   call, loop_exit, committed_pages, pauses, http, client, latest>>

\* The rows "order_by(retrieved_at.desc()).limit(1)" may give: any row
\* no other row is later than.
LatestRows(rows) == {r \in rows : \A q \in rows : q.retrieved_at <= r.retrieved_at}

\* What Database.get_latest_metric(config_name) may return: None when the
\* instance does not know the table or the table is empty, else a latest
\* row.
LatestResults(tables, db, config_name) ==
    IF config_name \notin tables \/ TableRows(db, config_name) = {}
    THEN {[config |-> config_name, found |-> FALSE, row |-> NoQuery.row]}
    ELSE {[config |-> config_name, found |-> TRUE, row |-> r] :
            r \in LatestRows(TableRows(db, config_name))}

\* Database.get_latest_metric(config_name).
GetLatestMetric ==
    /\ \E c \in Configs : latest' \in LatestResults(db_tables, metrics_db, c)
    /\ UNCHANGED <<store, MAX_PAGES, pc, exit_code, clock, memory, runs_started, fetches,
                   call, loop_exit, committed_pages, pauses, http, client, metrics_db,
                   db_tables, metrics>>

\* Database.get_time_series(config_name): the instance gets or creates
\* the table before it reads it (the list it returns is not kept).
GetTimeSeries ==
    /\ \E c \in Configs :
        /\ db_tables' = db_tables \cup {c}
        /\ metrics_db' = CreatedTables(metrics_db, {c})
    /\ UNCHANGED <<store, MAX_PAGES, pc, exit_code, clock, memory, runs_started, fetches,
                   call, loop_exit, committed_pages, pauses, http, client, metrics, latest>>

NextMetrics ==
    \/ OpenDatabase
    \/ SaveMetrics
    \/ GetLatestMetric
    \/ GetTimeSeries

SpecMetrics == Init /\ [][NextMetrics]_vars

TypeOK ==
    /\ pc \in {"idle", "create_run", "loop", "request", "backoff", "page", "upsert",
               "commit", "delay", "finalize", "summary", "exited"}
    /\ exit_code \in {NoExit, 0, 1, SIGINT_STATUS}
    /\ clock \in 1..MaxClock
    /\ attempt \in 0..MAX_RETRIES
    /\ idx \in 0..PAGE_SIZE

(* ------------------------------------------------------------------ *)
(* Vocabulary of the properties                                        *)
(* ------------------------------------------------------------------ *)

\* An identifier that is an integer or a string of decimal digits.
HasNumericId(raw) ==
    \/ raw.kind = "int"
    \/ raw.kind = "str" /\ Len(raw.s) > 0 /\ \A i \in 1..Len(raw.s) : raw.s[i] \in Digits

\* The integer such an identifier denotes.
NumericValue(raw) == IF raw.kind = "int" THEN raw.n ELSE DecimalValue(raw.s)

\* An identifier that is missing or not numeric.
MissingOrNonNumeric(raw) == ~HasNumericId(raw)

RowsOf(tbl, id) == {r \in tbl : r.id = id}

IdsOf(tbl) == {r.id : r \in tbl}

\* The offer the next iteration of the page loop handles.
CurrentOffer == offers[idx + 1]

\* This step is one call of upsert_ad that returned.
UpsertDone == pc = "upsert" /\ idx' = idx + 1

\* This step is the commit of a page.
CommitDone == pc = "commit" /\ pc' \in {"delay", "finalize"}

\* The integers the offers of the current page denote.
PageNumericIds ==
    {NumericValue(offers[k].id) : k \in {j \in 1..Len(offers) : HasNumericId(offers[j].id)}}

(* ------------------------------------------------------------------ *)
(* Properties                                                          *)
(* ------------------------------------------------------------------ *)

\* C1: ingesting a record whose identifier already has a row keeps the
\* number of rows, keeps that row's first_seen_at and sets its last_seen_at
\* to the timestamp of this ingestion: within the page transaction at every
\* upsert_ad, and in the committed table at the commit of a later page.
C1_UpsertIdempotent ==
    [][/\ ( /\ UpsertDone
            /\ HasNumericId(CurrentOffer.id)
            /\ RowsOf(session, NumericValue(CurrentOffer.id)) # {} )
          => LET id == NumericValue(CurrentOffer.id)
             IN  /\ Cardinality(session') = Cardinality(session)
                 /\ Cardinality(RowsOf(session', id)) = 1
                 /\ \A r \in RowsOf(session, id) : \A r2 \in RowsOf(session', id) :
                       r2.first_seen_at = r.first_seen_at /\ r2.last_seen_at = now_iso
       /\ CommitDone
          => /\ \A r \in ads : r.id \in PageNumericIds =>
                   /\ Cardinality(RowsOf(ads', r.id)) = 1
                   /\ \A r2 \in RowsOf(ads', r.id) :
                         r2.first_seen_at = r.first_seen_at /\ r2.last_seen_at = now_iso
             /\ PageNumericIds \subseteq IdsOf(ads) => Cardinality(ads') = Cardinality(ads)
      ]_vars

\* A committed row that was ingested again at a later time.
C1_Witness == \E r \in ads : r.first_seen_at < r.last_seen_at

C3_InvalidIdSkipped ==
    [][/\ (pc = "upsert" /\ idx < Len(offers) /\ MissingOrNonNumeric(CurrentOffer.id))
          => loop_exit' # "IntegrityError"
       /\ (UpsertDone /\ MissingOrNonNumeric(CurrentOffer.id))
          => session' = session /\ ads' = ads
       /\ CommitDone
          => \A k \in 1..Len(offers) : IdAccepted(offers[k].id) =>
                \E r \in ads' : r.id = OfferId(offers[k]) /\ r.last_seen_at = now_iso
      ]_vars

\* A page with a skipped record and an accepted one is about to be
\* committed.
C3_Witness ==
    /\ pc = "commit"
    /\ \E k \in 1..Len(offers) : MissingOrNonNumeric(offers[k].id)
    /\ \E k \in 1..Len(offers) : IdAccepted(offers[k].id)
    /\ session # ads

\* C4: every record of a page is classified as exactly one of new (numeric
\* identifier without a row), updated (numeric identifier with a row) or
\* skipped (identifier missing or not numeric), and a skipped record is
\* added neither to the new counter nor to the updated counter.
C4_ThreeWayClassification ==
    [][UpsertDone
       => LET valid == HasNumericId(CurrentOffer.id)
              stored == valid /\ RowsOf(session, NumericValue(CurrentOffer.id)) # {}
          IN  /\ (valid /\ ~stored) => (page_new' = page_new + 1 /\ page_updated' = page_updated)
              /\ (valid /\ stored) => (page_new' = page_new /\ page_updated' = page_updated + 1)
              /\ ~valid => (page_new' = page_new /\ page_updated' = page_updated)
      ]_vars

CeilDiv(a, b) == (a + b - 1) \div b

Max(a, b) == IF a >= b THEN a ELSE b

\* The pagination loop ended by itself: no cap, no failed fetch.
LoopExhausted ==
    pc = "finalize" /\ loop_exit \in {"end", "empty"} /\ MAX_PAGES = NoPageCap

\* C5 as stated: against a server with a fixed result set of T offers, the
\* loop ends after exactly ceil(T / PAGE_SIZE) page fetches, for every
\* T >= 0.
C5_FetchCountAsStated ==
    LoopExhausted =>
        /\ fetches = CeilDiv(total_available, PAGE_SIZE)
        /\ start_index + PAGE_SIZE >= total_available

\* C5, amended: the loop ends after exactly max(1, ceil(T / PAGE_SIZE))
\* page fetches (the fetch that reports T = 0 is still issued), at the first
\* page with start_index + PAGE_SIZE >= T and at no earlier one.
C5_FetchCount ==
    /\ LoopExhausted =>
          /\ fetches = Max(1, CeilDiv(total_available, PAGE_SIZE))
          /\ start_index + PAGE_SIZE >= total_available
    /\ (committed_pages >= 1 /\ pc \in {"delay", "loop", "request", "backoff", "page"}) =>
          /\ start_index = PAGE_SIZE * committed_pages
          /\ start_index < total_available

\* The loop ended by itself after two fetches for a result set of three.
C5_Witness ==
    LoopExhausted /\ loop_exit = "end" /\ fetches = 2 /\ total_available = 3

\* C6: an attempt answered 401 or 403 ends the process at once with exit
\* code 1, with no backoff and without finalization, and the process issues
\* no request afterwards.
C6_AuthFailureTerminates ==
    [][/\ (pc = "request" /\ (loop_exit' = "SystemExit" \/ IsAuthFailure(last_outcome'.status)))
          => (pc' = "exited" /\ exit_code' = 1 /\ ads' = ads /\ runs' = runs)
       /\ loop_exit = "SystemExit" => (pc = "exited" /\ pc' \in {"exited", "create_run"})
      ]_vars

\* The process ended on an authentication failure of a later page: the run
\* is left open and the first page stays committed.
C6_Witness ==
    /\ pc = "exited" /\ loop_exit = "SystemExit" /\ exit_code = 1
    /\ ads # {}
    /\ \A r \in runs : r.ended_at = NULL

\* An attempt that fetch_page answers with a backoff while attempts remain.
RetryableOutcome(o) ==
    \/ o.exc \in {"Timeout", "ConnectionError"}
    \/ o.exc = "none" /\ (o.status = 429 \/ o.status >= 500)

\* C7: fetch_page issues at most MAX_RETRIES requests for one page; a
\* retryable failure is followed by a backoff and another request while fewer
\* than MAX_RETRIES requests were made, and the failure of request number
\* MAX_RETRIES is raised to the caller without a sleep.
C7_BoundedRetry ==
    [][/\ requests' <= MAX_RETRIES
       /\ (pc = "request" /\ requests' = requests + 1 /\ RetryableOutcome(last_outcome'))
          => IF requests' < MAX_RETRIES
             THEN pc' = "backoff" /\ loop_exit' = loop_exit
             ELSE pc' = "finalize" /\ loop_exit' = "fetch_error" /\ sleeps' = sleeps
       /\ (pc = "backoff" /\ pc' \notin {"backoff", "exited"})
          => (pc' = "request" /\ sleeps' = sleeps + 1 /\ requests' = requests)
      ]_vars

\* fetch_page gave up after MAX_RETRIES requests and MAX_RETRIES - 1 sleeps.
C7_Witness ==
    /\ pc = "finalize" /\ loop_exit = "fetch_error"
    /\ requests = MAX_RETRIES /\ sleeps = MAX_RETRIES - 1

\* C8: when fetch_page raises a requests error, the loop stops without
\* another fetch, the committed rows stay as they are, and the run row gets
\* an end timestamp and the counters of the pages committed before.
C8_GracefulStopOnFetchFailure ==
    [][/\ ( /\ pc = "request"
            /\ pc' \notin {"request", "backoff", "page"}
            /\ loop_exit' \notin {"KeyboardInterrupt", "SystemExit"} )
          => /\ pc' = "finalize" /\ loop_exit' = "fetch_error"
             /\ ads' = ads /\ runs' = runs
             /\ fetches' = fetches /\ committed_pages' = committed_pages
       /\ (loop_exit = "fetch_error" /\ pc \in {"finalize", "summary"})
          => (ads' = ads /\ pc' \in {pc, "summary", "exited"})
       /\ (loop_exit = "fetch_error" /\ pc = "finalize" /\ pc' = "summary")
          => \E r \in runs' :
                /\ r.run_id = run_id
                /\ r.ended_at # NULL
                /\ r.pages_fetched = committed_pages
                /\ r.ads_fetched = new_ads_count + updated_ads_count
      ]_vars

\* The fetch of the second page failed: the run is finalized with one page
\* and the rows of the first page are in the table.
C8_Witness ==
    /\ pc = "summary" /\ loop_exit = "fetch_error"
    /\ committed_pages = 1 /\ ads # {}
    /\ \E r \in runs : r.run_id = run_id /\ r.ended_at # NULL /\ r.pages_fetched = 1

\* C9: the committed ads table changes only at the one commit of a page,
\* where it takes all of the page's upserts, and an error inside the page
\* transaction leaves it as the earlier pages committed it.
C9_PageAtomicity ==
    [][/\ ads' # ads => (CommitDone /\ ads' = session)
       /\ CommitDone => (committed_pages' = committed_pages + 1 /\ committed_pages' <= fetches)
       /\ (pc \in {"upsert", "commit"} /\ pc' = "exited") => ads' = ads
      ]_vars

\* A store error ended the process inside a page transaction that followed
\* a committed page.
C9_Witness ==
    pc = "exited" /\ loop_exit = "OperationalError" /\ ads # {}

RunRows(tbl, id) == {r \in tbl : r.run_id = id}

RunOpen ==
    pc \in {"loop", "request", "backoff", "page", "upsert", "commit", "delay", "finalize"}

\* The ways the pagination loop is left by itself.
NormalLoopExits == {"none", "cap", "fetch_error", "empty", "end"}

\* This step is an interrupt or an exception that nothing in crawl_all_ads
\* catches, while the run is open.
EscapesOpenRun == RunOpen /\ loop_exit' \notin NormalLoopExits

\* C11: an interrupt or uncaught exception between the creation of the run
\* row and its finalization ends the process without finalizing: the run
\* row keeps a null end timestamp and zero counters, now and later, and
\* the committed ads rows stay.
C11_AbandonedRun ==
    [][/\ EscapesOpenRun
          => /\ pc' = "exited" /\ exit_code' = 1
             /\ ads' = ads /\ runs' = runs
             /\ \E r \in runs' :
                   /\ r.run_id = run_id
                   /\ r.ended_at = NULL /\ r.ads_fetched = 0 /\ r.pages_fetched = 0
       /\ \A r \in runs : (r.ended_at = NULL /\ r.run_id # run_id) => r \in runs'
      ]_vars

\* An interrupt ended the process after a page was committed: the run row
\* is open with zero counters.
C11_Witness ==
    /\ pc = "exited" /\ loop_exit = "KeyboardInterrupt" /\ exit_code = 1
    /\ ads # {}
    /\ \E r \in runs : r.ended_at = NULL /\ r.ads_fetched = 0 /\ r.pages_fetched = 0

\* The first page of the scenario: two records whose identifiers are 1 and
\* 2, out of a total of 2.
ScenarioPage ==
    /\ Len(offers) = 2
    /\ \A k \in 1..2 : IdAccepted(offers[k].id)
    /\ {OfferId(offers[k]) : k \in 1..2} = {1, 2}
    /\ total_available = 2
    /\ start_index = 0 /\ fetches = 1

\* C12: from an empty store, a run whose first response carries the
\* records 1 and 2 and totalCount 2 makes one page fetch, commits two new
\* rows, and is finalized as the only run row with pages_fetched = 1,
\* ads_fetched = 2 and an end timestamp.
C12_TwoRecordScenario ==
    [][/\ (CommitDone /\ ScenarioPage /\ ads = {} /\ Cardinality(runs) = 1)
          => /\ IdsOf(ads') = {1, 2} /\ Cardinality(ads') = 2
             /\ page_new = 2 /\ page_updated = 0
             /\ new_ads_count' = 2 /\ updated_ads_count' = 0 /\ total_pages' = 1
             /\ pc' = "finalize" /\ loop_exit' = "end"
             /\ fetches' = 1
       /\ ( /\ pc = "finalize" /\ pc' = "summary"
            /\ loop_exit = "end" /\ fetches = 1
            /\ new_ads_count = 2 /\ updated_ads_count = 0
            /\ Cardinality(runs) = 1 )
          => /\ Cardinality(runs') = 1
             /\ \A r \in runs' :
                   r.pages_fetched = 1 /\ r.ads_fetched = 2 /\ r.ended_at # NULL
             /\ ads' = ads
      ]_vars

\* The scenario has run to its end: two rows, one finalized run row, exit
\* code 0.
C12_Witness ==
    /\ pc = "exited" /\ exit_code = 0 /\ loop_exit = "end"
    /\ IdsOf(ads) = {1, 2} /\ Cardinality(ads) = 2
    /\ \A r \in ads : r.first_seen_at = r.last_seen_at
    /\ Cardinality(runs) = 1
    /\ \A r \in runs : r.pages_fetched = 1 /\ r.ads_fetched = 2 /\ r.ended_at # NULL

\* C13: a process that has ended has exit code 0 or 1 and no other; the
\* code is 0 exactly when the pagination loop ended by exhaustion, by the
\* page cap or by a failed fetch and the run was finalized, and it is 1
\* after an authentication failure, an interrupt or an unhandled exception.
C13_ExitCodes ==
    pc = "exited" =>
        /\ exit_code \in {0, 1}
        /\ exit_code = 0 <=> loop_exit \in {"end", "empty", "cap", "fetch_error"}
        /\ exit_code = 0 => \E r \in runs : r.ended_at # NULL
        /\ loop_exit \notin NormalLoopExits => exit_code = 1

\* This step is the call of fetch_page for the next page.
FetchStarts == pc = "loop" /\ pc' = "request"

\* C14: the politeness delay is slept only after a page that was fetched
\* and committed; there is none before the first fetch, one between two
\* consecutive fetches, none after a fetch that failed, and the step after
\* a delay is the next page fetch, also when a page cap is set.
C14_PolitenessDelay ==
    [][/\ FetchStarts => delays = fetches
       /\ (delays' # delays /\ pc' \notin {"exited", "create_run"})
          => (pc = "delay" /\ delays' = delays + 1 /\ committed_pages = fetches)
       /\ (pc = "request" /\ loop_exit' = "fetch_error") => (pc' = "finalize" /\ delays' = delays)
       /\ (pc = "loop" /\ delays > 0 /\ pc' \notin {"loop", "exited"}) => FetchStarts
      ]_vars

\* min(base * 2^a, max_delay) as a number: from a = 20 on the doubling is
\* past every max_delay of the model.
MinOfDoubling(a) == IF a >= 20 THEN MAX_DELAY ELSE Min(BASE_DELAY * 2 ^ a, MAX_DELAY)

\* exponential_backoff_sleep has computed its delay.
DelayComputed == pc \in {"sleep_jitter", "sleep_done"}

\* The bounds of the claim on a computed delay and on the sleep.
DelayAndJitterInBounds ==
    /\ DelayComputed =>
          /\ delay = MinOfDoubling(attempt)
          /\ delay <= MAX_DELAY
          /\ \A b \in 1..attempt :
                backoff_delay(b - 1, BASE_DELAY, MAX_DELAY).ms
                    <= backoff_delay(b, BASE_DELAY, MAX_DELAY).ms
    /\ pc = "sleep_done" =>
          /\ 0 <= jitter /\ 10 * jitter <= delay
          /\ sleep_time = delay + jitter
          /\ 10 * sleep_time <= 11 * MAX_DELAY

CapSet == MAX_PAGES # NoPageCap

\* C16: with MAX_PAGES set to N >= 1, no page fetch starts once N pages are
\* committed, whatever totals the responses carry; the loop then stops and
\* the run is finalized with pages_fetched <= N.
C16_PageCap ==
    [][/\ CapSet => (committed_pages <= MAX_PAGES /\ fetches <= MAX_PAGES)
       /\ (CapSet /\ FetchStarts) => committed_pages < MAX_PAGES
       /\ (CapSet /\ pc = "loop" /\ committed_pages >= MAX_PAGES /\ pc' \notin {"loop", "exited"})
          => (pc' = "finalize" /\ loop_exit' = "cap" /\ fetches' = fetches)
       /\ (CapSet /\ pc = "finalize" /\ pc' = "summary")
          => \E r \in runs' :
                r.run_id = run_id /\ r.ended_at # NULL /\ r.pages_fetched <= MAX_PAGES
      ]_vars

\* The cap stopped a crawl that had more to fetch: the run is finalized
\* with MAX_PAGES pages out of a larger total.
C16_Witness ==
    /\ pc = "summary" /\ loop_exit = "cap" /\ CapSet
    /\ total_available > PAGE_SIZE * MAX_PAGES
    /\ \E r \in runs : r.run_id = run_id /\ r.ended_at # NULL /\ r.pages_fetched = MAX_PAGES

\* The positions of the current page whose record is stored under id.
PositionsOf(id) ==
    {k \in 1..Len(offers) : IdAccepted(offers[k].id) /\ OfferId(offers[k]) = id}

MaxOf(S) == CHOOSE m \in S : \A x \in S : x <= m

\* C17: the payload stored under an identifier parses back to the whole
\* record of the latest committed observation of that identifier: an
\* upsert stores the record it was given in place of the old payload and
\* touches no other row, and a commit leaves under each identifier of the
\* page the last record the page carried for it.
C17_PayloadFidelity ==
    [][/\ (UpsertDone /\ IdAccepted(CurrentOffer.id))
          => /\ RowsOf(session', OfferId(CurrentOffer)) # {}
             /\ \A r \in RowsOf(session', OfferId(CurrentOffer)) :
                   json_loads(r.payload_json) = CurrentOffer
             /\ \A r \in session : r.id # OfferId(CurrentOffer) => r \in session'
       /\ CommitDone
          => \A r \in ads' :
                IF PositionsOf(r.id) = {}
                THEN r \in ads
                ELSE json_loads(r.payload_json) = offers[MaxOf(PositionsOf(r.id))]
       /\ ads' # ads
          => \A r \in ads' :
                /\ json_loads(r.payload_json) \in Offers
                /\ IdAccepted(json_loads(r.payload_json).id)
                /\ OfferId(json_loads(r.payload_json)) = r.id
      ]_vars

\* Identifier 1 was stored from one record and later updated from another:
\* the payload is the later record.
C17_Witness ==
    \E r \in ads :
        /\ r.id = 1 /\ r.first_seen_at < r.last_seen_at
        /\ json_loads(r.payload_json) = [id |-> IdStr(<<"1">>), intitule |-> 2]

\* The records of the current page that are classified new or updated:
\* those with a numeric identifier.
ClassifiedRecords == Cardinality({k \in 1..Len(offers) : HasNumericId(offers[k].id)})

\* C18: a finalized run carries as pages_fetched the number of page
\* transactions committed in the run and as ads_fetched the number of
\* records of those pages classified new or updated; an empty page and a
\* failed fetch add to neither counter.
C18_FinalRunCounters ==
    [][/\ CommitDone
          => /\ total_pages' = total_pages + 1 /\ total_pages' = committed_pages'
             /\ new_ads_count' + updated_ads_count'
                    = new_ads_count + updated_ads_count + ClassifiedRecords
       /\ (RunOpen /\ ~CommitDone /\ pc' # "exited")
          => UNCHANGED <<new_ads_count, updated_ads_count, total_pages>>
       /\ (pc = "finalize" /\ pc' = "summary")
          => \E r \in runs' :
                /\ r.run_id = run_id /\ r.ended_at # NULL
                /\ r.pages_fetched = committed_pages
                /\ r.ads_fetched = new_ads_count + updated_ads_count
      ]_vars

\* The exceptions the store raises inside a page transaction.
StoreErrors == {"IntegrityError", "OperationalError"}

\* C19: an error raised while a page is persisted or committed leaves the
\* page transaction and crawl_all_ads: the process exits with code 1, the
\* run row is not finalized, no page is fetched afterwards, and the rows
\* committed by earlier pages stay.
C19_PersistenceErrorAborts ==
    [][/\ (pc \in {"upsert", "commit"} /\ loop_exit' \in StoreErrors)
          => /\ pc' = "exited" /\ exit_code' = 1
             /\ ads' = ads /\ runs' = runs
             /\ \E r \in runs' : r.run_id = run_id /\ r.ended_at = NULL
       /\ loop_exit \in StoreErrors
          => (pc = "exited" /\ exit_code = 1 /\ pc' \in {"exited", "create_run"})
      ]_vars

\* The store failed in the transaction of a later page: exit code 1, an
\* open run row, and the rows of the page committed before.
C19_Witness ==
    /\ pc = "exited" /\ loop_exit \in StoreErrors /\ exit_code = 1
    /\ ads # {}
    /\ \E r \in runs : r.ended_at = NULL /\ r.pages_fetched = 0

\* C20: within a run fetches and page transactions alternate: a fetch
\* starts only when every page fetched before is committed and no
\* transaction is open, a transaction is that of the page fetched last, and
\* the ads table changes only inside it.
C20_StrictSequencing ==
    [][/\ FetchStarts => (committed_pages = fetches /\ offers = <<>> /\ session = {})
       /\ pc \in {"request", "backoff", "page"}
          => (fetches = committed_pages + 1 /\ offers = <<>> /\ idx = 0 /\ session = {})
       /\ pc \in {"upsert", "commit"} => (fetches = committed_pages + 1 /\ offers # <<>>)
       /\ CommitDone => committed_pages' = fetches'
       /\ ads' # ads => pc = "commit"
      ]_vars

\* The fetch of the second page is in progress after the first page was
\* committed.
C20_Witness ==
    pc = "request" /\ fetches = 2 /\ committed_pages = 1 /\ ads # {} /\ session = {}

(* ------------------------------------------------------------------ *)
(* C21                                                                  *)
(* ------------------------------------------------------------------ *)

Is2xx(status) == status >= 200 /\ status < 300

IsErrorStatus(status) == status >= 400 /\ status < 600

\* The client has just answered a call that got a response.
ClientAnswered == client' # client /\ client'.exc = "none"

\* fetch_page returns the parsed body to the crawl loop.
FetchReturns == pc = "request" /\ pc' = "page"

\* fetch_page ends on a response without returning a body.
FetchRaisesOnResponse ==
    /\ pc = "request"
    /\ pc' \in {"finalize", "exited"}
    /\ (pc' = "finalize" => last_outcome'.exc = "none")

SaveStep ==
    \/ metrics' # metrics /\ metrics' # NoMetrics
    \/ \E c \in Configs : TableRows(metrics_db', c) # TableRows(metrics_db, c)

\* The rows of config_name's table that the step added.
AddedRows(config_name) == TableRows(metrics_db', config_name) \ TableRows(metrics_db, config_name)

\* C22: metric tables are append-only. No step modifies or removes a row
\* of a metric table; a save_metrics call adds exactly one row, with an id
\* no row had, the value and the retrieval time of the argument, to the
\* table of each configuration the argument names and none to any other
\* table, whether or not the table already holds a row with that value and
\* that time.
C22_AppendOnly ==
    [][/\ \A c \in Configs : TableRows(metrics_db, c) \subseteq TableRows(metrics_db', c)
       /\ SaveStep =>
            \A c \in Configs :
                IF c \in DOMAIN metrics'
                THEN /\ Cardinality(AddedRows(c)) = 1
                     /\ \A r \in AddedRows(c) :
                            /\ r.id \notin {q.id : q \in TableRows(metrics_db, c)}
                            /\ r.value = metrics'[c].value
                            /\ r.retrieved_at = fromisoformat(metrics'[c].retrieved_at)
                ELSE AddedRows(c) = {}
      ]_vars

\* The same value and time were saved twice for both configurations and
\* each table holds two rows that differ in their id only.
C22_Witness ==
    /\ DOMAIN metrics = Configs
    /\ \A c \in Configs :
        /\ Cardinality(TableRows(metrics_db, c)) = 2
        /\ \A r, q \in TableRows(metrics_db, c) :
              r.value = q.value /\ r.retrieved_at = q.retrieved_at

(* ------------------------------------------------------------------ *)
(* C23                                                                  *)
(* ------------------------------------------------------------------ *)

\* This step is the crawl loop reading the page of a response.
PageRead == pc = "page" /\ pc' \in {"upsert", "finalize"}

\* C23: a page without records stops the loop at once, whatever total the
\* response reports: no page transaction is opened, no counter and no table
\* changes, and the next step finalizes the run with the counters of the
\* pages committed before; after an empty first page the run row gets
\* pages_fetched = 0 and ads_fetched = 0 and no commit has touched the ads
\* table.
C23_EmptyPageStops ==
    [][/\ (PageRead /\ offers' = <<>>) =>
            /\ pc' = "finalize" /\ loop_exit' = "empty"
            /\ UNCHANGED <<ads, runs, session, now_iso, locals, fetches, committed_pages>>
       /\ (PageRead /\ pc' = "upsert") => offers' # <<>>
       /\ (pc = "finalize" /\ loop_exit = "empty") =>
            /\ pc' \in {"finalize", "summary", "exited"}
            /\ ads' = ads
            /\ fetches' \in {fetches, 0}
       /\ (pc = "finalize" /\ loop_exit = "empty" /\ pc' = "summary") =>
            \E r \in runs' :
                /\ r.run_id = run_id
                /\ r.ended_at # NULL
                /\ r.pages_fetched = total_pages
                /\ total_pages = committed_pages
                /\ fetches = 1 => (r.pages_fetched = 0 /\ r.ads_fetched = 0)
       /\ (loop_exit = "empty" /\ fetches = 1) => committed_pages = 0
      ]_vars

\* An empty first page that reported the largest total: the run is
\* finalized with zero counters and the ads table is empty.
C23_Witness ==
    /\ pc = "summary" /\ loop_exit = "empty"
    /\ fetches = 1 /\ total_available = MaxTotal
    /\ ads = {}
    /\ \E r \in runs :
        r.run_id = run_id /\ r.ended_at # NULL /\ r.pages_fetched = 0 /\ r.ads_fetched = 0

(* ------------------------------------------------------------------ *)
(* C24                                                                  *)
(* ------------------------------------------------------------------ *)

\* fetch_page is running: a request is about to be sent or a backoff is
\* due before the next one.
InFetchPage == pc \in {"request", "backoff"}

\* C24: every request of a run carries the pagination block
\* {range: PAGE_SIZE, startIndex: offset} with offset = PAGE_SIZE times the
\* number of pages the run has committed; the attempts for one page carry
\* the same body; the offset is 0 before the first fetch, grows by
\* PAGE_SIZE at the commit of a page the loop goes on after, and changes at
\* no other step of the run.
C24_OffsetDiscipline ==
    [][/\ InFetchPage =>
            /\ payload.pagination = [range |-> PAGE_SIZE, startIndex |-> start_index]
            /\ start_index = PAGE_SIZE * committed_pages
       /\ (InFetchPage /\ InFetchPage') => (payload' = payload /\ start_index' = start_index)
       /\ (pc = "create_run" /\ pc' = "loop") => start_index' = 0
       /\ (CommitDone /\ pc' = "delay") => start_index' = start_index + PAGE_SIZE
       /\ (start_index' # start_index /\ pc' \notin {"exited", "create_run"}) =>
            (CommitDone /\ pc' = "delay")
      ]_vars

\* The second attempt for the second page failed too: the body of its
\* requests carries the offset PAGE_SIZE.
C24_Witness ==
    /\ pc = "backoff" /\ sleeps = 1
    /\ committed_pages = 1
    /\ payload.pagination = [range |-> PAGE_SIZE, startIndex |-> PAGE_SIZE]

(* ------------------------------------------------------------------ *)
(* C25                                                                  *)
(* ------------------------------------------------------------------ *)

\* crawl_all_ads is inside its pagination loop.
InPaginationLoop == pc \in {"loop", "request", "backoff", "page", "upsert", "commit", "delay"}

\* The run row of this execution has its end timestamp.
RunFinalized == \E r \in runs : r.run_id = run_id /\ r.ended_at # NULL

\* The execution ended by an authentication failure, an interrupt or an
\* error of the store.
EndedAbnormally ==
    /\ pc = "exited"
    /\ loop_exit \in {"SystemExit", "KeyboardInterrupt"} \cup StoreErrors

\* C25: with a bounded total and attempts that all come to an end, an
\* execution of crawl_all_ads that is in its pagination loop leaves it, and
\* an execution that has started finalizes its run row unless it is ended
\* by an authentication failure, an interrupt or an error of the store.
C25_CrawlTerminates ==
    /\ InPaginationLoop ~> ~InPaginationLoop
    /\ (pc = "create_run") ~> ((pc = "summary" /\ RunFinalized) \/ EndedAbnormally)

\* The loop was left after two committed pages and the run is finalized.
C25_Witness ==
    /\ pc = "summary" /\ RunFinalized
    /\ committed_pages = 2 /\ loop_exit = "end"

(* ------------------------------------------------------------------ *)
(* C26                                                                  *)
(* ------------------------------------------------------------------ *)

\* A 4xx status other than 401, 403 and 429.
IsPlainClientError(status) == status >= 400 /\ status < 500 /\ status \notin {401, 403, 429}

\* This step is an attempt of fetch_page answered by such a status.
PlainClientErrorAnswered ==
    /\ pc = "request"
    /\ last_outcome'.exc = "none"
    /\ IsPlainClientError(last_outcome'.status)

\* C26: a 4xx response other than 401, 403 and 429 ends fetch_page on that
\* attempt with an HTTP error the crawl loop catches: no backoff sleep and
\* no further request follow, the tables are not touched, and the run is
\* finalized with the counters of the pages committed before, as after a
\* used-up retry budget.
C26_ClientErrorNotRetried ==
    [][/\ PlainClientErrorAnswered =>
            /\ pc' = "finalize" /\ loop_exit' = "fetch_error"
            /\ requests' = requests + 1
            /\ UNCHANGED <<sleeps, attempt, clock, fetches, ads, runs, committed_pages>>
       /\ (pc = "finalize" /\ IsPlainClientError(last_outcome.status)) =>
            /\ loop_exit = "fetch_error"
            /\ pc' \in {"finalize", "summary", "exited"}
            /\ ads' = ads
            /\ pc' = "summary" =>
                \E r \in runs' :
                    /\ r.run_id = run_id
                    /\ r.ended_at # NULL
                    /\ r.pages_fetched = committed_pages
                    /\ r.ads_fetched = new_ads_count + updated_ads_count
      ]_vars

\* The first request for the second page was answered 404: one request,
\* no sleep, and the run is finalized with the one page committed.
C26_Witness ==
    /\ pc = "summary" /\ loop_exit = "fetch_error"
    /\ last_outcome = Response(404)
    /\ requests = 1 /\ sleeps = 0
    /\ committed_pages = 1
    /\ \E r \in runs : r.run_id = run_id /\ r.ended_at # NULL /\ r.pages_fetched = 1

(* ------------------------------------------------------------------ *)
(* C27                                                                  *)
(* ------------------------------------------------------------------ *)

\* This step is a backoff sleep of fetch_page.
BackoffSleep == sleeps' = sleeps + 1

\* C27: within one call of fetch_page a backoff sleep comes directly after
\* a failed retryable attempt that was not the last one and directly before
\* the next attempt; sleep number k is made with attempt index k - 1; a
\* retryable failure with attempts left is followed by a sleep, and no sleep
\* follows the last attempt or a response that ends the call, so that at
\* most MAX_RETRIES - 1 sleeps occur.
C27_BackoffSchedule ==
    [][/\ BackoffSleep =>
            /\ pc = "backoff" /\ pc' = "request"
            /\ RetryableOutcome(last_outcome)
            /\ attempt = sleeps
            /\ attempt' = attempt + 1
            /\ attempt' <= MAX_RETRIES - 1
       /\ (pc = "backoff" /\ pc' # "exited") => (pc' = "backoff" \/ BackoffSleep)
       /\ (pc = "request" /\ RetryableOutcome(last_outcome') /\ attempt < MAX_RETRIES - 1) =>
            (pc' = "backoff" /\ sleeps' = sleeps)
       /\ (pc = "request" /\ pc' = "backoff") =>
            (RetryableOutcome(last_outcome') /\ attempt < MAX_RETRIES - 1)
       /\ (pc = "request" /\ pc' # "backoff") => (pc' # "request" /\ ~BackoffSleep)
       /\ InFetchPage => (sleeps = attempt /\ sleeps <= MAX_RETRIES - 1)
      ]_vars

\* The last attempt is about to be made: MAX_RETRIES - 1 sleeps were made,
\* with the attempt indexes 0 to MAX_RETRIES - 2.
C27_Witness ==
    /\ pc = "request"
    /\ sleeps = MAX_RETRIES - 1
    /\ attempt = MAX_RETRIES - 1
    /\ requests = MAX_RETRIES - 1

(* ------------------------------------------------------------------ *)
(* C28                                                                  *)
(* ------------------------------------------------------------------ *)

\* Every row of tbl was first seen no later than it was last seen.
SeenInOrder(tbl) == \A r \in tbl : r.first_seen_at <= r.last_seen_at

\* From before to after, a row keeps its first_seen_at and its
\* last_seen_at does not decrease.
SeenMonotone(tbl_before, tbl_after) ==
    \A r \in tbl_before : \A q \in tbl_after :
        q.id = r.id => (q.first_seen_at = r.first_seen_at /\ q.last_seen_at >= r.last_seen_at)

\* C28: with a clock that does not go back, every row of the ads table,
\* committed or in the open page transaction, has
\* first_seen_at <= last_seen_at from the step that wrote it (both tables
\* start empty); no step changes the first_seen_at of a row or decreases
\* its last_seen_at.
C28_TimestampOrdering ==
    [][/\ ads' # ads => (SeenInOrder(ads') /\ SeenMonotone(ads, ads'))
       /\ session' # session => SeenInOrder(session')
       /\ (UpsertDone => SeenMonotone(session, session'))
       /\ (CommitDone => SeenMonotone(ads, session))
       /\ clock' >= clock
      ]_vars

\* A committed row that was seen again on a later page, at a later time.
C28_Witness ==
    /\ pc = "finalize"
    /\ committed_pages = 2
    /\ \E r \in ads : r.first_seen_at < r.last_seen_at

(* ------------------------------------------------------------------ *)
(* C29                                                                  *)
(* ------------------------------------------------------------------ *)

\* C29: upsert_ad keys rows by the integer an identifier denotes: after the
\* upsert of a record whose identifier is an integer, 0 included, or a
\* string of digits, the session holds exactly one row under that integer,
\* with the record's payload, whichever representation the identifier has,
\* and the rows under other integers are as before.
C29_IdNormalisation ==
    [][(UpsertDone /\ HasNumericId(CurrentOffer.id))
       => LET k == NumericValue(CurrentOffer.id)
          IN  /\ Cardinality(RowsOf(session', k)) = 1
              /\ \A r \in RowsOf(session', k) : r.payload_json = json_dumps(CurrentOffer)
              /\ {r \in session' : r.id # k} = {r \in session : r.id # k}
      ]_vars

(* ------------------------------------------------------------------ *)
(* C30                                                                  *)
(* ------------------------------------------------------------------ *)

\* This step is a get_latest_metric that returned.
LatestQueried == latest' # latest /\ latest'.config # "none"

\* C30: get_latest_metric(c) returns None exactly when the store holds no
\* metric row for c, and otherwise a row of c's table that no other row of
\* the table is later than, for whichever Database instance is asked.
C30_LatestMetric ==
    [][LatestQueried
       => LET rows == TableRows(metrics_db, latest'.config)
          IN  /\ latest'.found <=> rows # {}
              /\ latest'.found =>
                    /\ latest'.row \in rows
                    /\ \A q \in rows : q.retrieved_at <= latest'.row.retrieved_at
      ]_vars

(* ------------------------------------------------------------------ *)
(* C31                                                                  *)
(* ------------------------------------------------------------------ *)

\* The keys of a request body other than its pagination block.
CriteriaKeys == DOMAIN RequestTemplate \ {"pagination"}

\* C31: fetch_page leaves the request template as the module defines it,
\* with pagination.startIndex = 0, whatever calls were made, failed or
\* retried; the body of a call has the keys of the template and differs
\* from it in the pagination block at most.
C31_TemplateUnchanged ==
    /\ REQUEST_TEMPLATE = RequestTemplate
    /\ REQUEST_TEMPLATE.pagination.startIndex = 0
    /\ payload # NoPayload =>
            /\ DOMAIN payload = DOMAIN REQUEST_TEMPLATE
            /\ \A k \in CriteriaKeys : payload[k] = REQUEST_TEMPLATE[k]

\* The call for the second page used up its attempts: its body carries the
\* offset PAGE_SIZE and the template still carries 0.
C31_Witness ==
    /\ pc = "finalize" /\ loop_exit = "fetch_error"
    /\ requests = MAX_RETRIES
    /\ payload.pagination.startIndex = PAGE_SIZE
    /\ REQUEST_TEMPLATE.pagination.startIndex = 0

====
